---- MODULE Spec2Model ----
(***************************************************************************)
(* The list-tech-debt tool of the Technical Debt Discovery MCP server      *)
(* (src/src/index.ts): parameter validation, recursive file discovery,     *)
(* per-file pattern analysis, severity filtering, summary and report       *)
(* formatting.                                                             *)
(*                                                                         *)
(* Text is modelled as a sequence of one-character strings, a path as a    *)
(* sequence of names below the process's working directory, and a          *)
(* template string as the sequence of its parts.                           *)
(***************************************************************************)
EXTENDS Integers, Sequences, FiniteSets, TLC

VARIABLES
    fsys,            \* the file system below the process's working directory
    params,          \* the parameters of the invocation being handled
    pc,              \* the handler's position
    config,          \* validationResult.data
    stack,           \* the call stack of collectFiles
    files,           \* getAllSourceFiles: results
    fsErrors,        \* getAllSourceFiles: errors
    fileIndex,       \* the handler's position in `for (const file of files)`
    analysisErrors,  \* the handler's analysisErrors
    fileAnalyses,    \* the handler's fileAnalyses
    response,        \* the ListTechDebtResponse returned
    events,          \* the file-system calls made so far, in order
    clock,           \* the value new Date() returns
    previous         \* the parameters and response of the invocation before

vars == <<fsys, params, pc, config, stack, files, fsErrors, fileIndex,
          analysisErrors, fileAnalyses, response, events, clock,
          previous>>

(***************************************************************************)
(* Characters and the regular-expression classes the patterns use.         *)
(***************************************************************************)
UpperLetters == <<"A","B","C","D","E","F","G","H","I","J","K","L","M","N","O","P","Q","R","S","T","U","V","W","X","Y","Z">>

LowerLetters == <<"a","b","c","d","e","f","g","h","i","j","k","l","m","n","o","p","q","r","s","t","u","v","w","x","y","z">>

Digits == {"0","1","2","3","4","5","6","7","8","9"}

\* \s
WhiteSpace == {" ", "\t", "\n", "\r", "\f"}

\* \w
WordChars == {UpperLetters[k] : k \in 1..26} \cup {LowerLetters[k] : k \in 1..26} \cup Digits \cup {"_"}

IsSpace(c) == c \in WhiteSpace

IsWordChar(c) == c \in WordChars

\* The characters an /i pattern character matches: itself in either case.
CaseVariants(c) ==
    IF \E k \in 1..26 : LowerLetters[k] = c \/ UpperLetters[k] = c
    THEN LET k == CHOOSE j \in 1..26 : LowerLetters[j] = c \/ UpperLetters[j] = c
         IN  {LowerLetters[k], UpperLetters[k]}
    ELSE {c}

RECURSIVE IgnoreCase(_)
IgnoreCase(lit) ==
    IF lit = <<>> THEN <<>>
    ELSE <<CaseVariants(Head(lit))>> \o IgnoreCase(Tail(lit))

\* The literal `lit` occurs in s at position i.
LitAt(s, i, lit) ==
    /\ i >= 1
    /\ i + Len(lit) - 1 <= Len(s)
    /\ \A k \in 1..Len(lit) : s[i + k - 1] = lit[k]

\* The same, for a literal given as the sets of characters each position matches.
ClassAt(s, i, classes) ==
    /\ i >= 1
    /\ i + Len(classes) - 1 <= Len(s)
    /\ \A k \in 1..Len(classes) : s[i + k - 1] \in classes[k]

Contains(s, lit) == \E i \in 1..Len(s) : LitAt(s, i, lit)

ContainsIgnoreCase(s, classes) == \E i \in 1..Len(s) : ClassAt(s, i, classes)

\* \b after a word character at position i: the end, or a non-word character.
WordEndsAt(s, i) == i = Len(s) \/ ~IsWordChar(s[i + 1])

\* \s* from position i reaches position j (every character in between is a space).
SpacesBetween(s, i, j) == \A k \in i..(j - 1) : IsSpace(s[k])

L_todo == <<"t","o","d","o">>
L_fixme == <<"f","i","x","m","e">>
L_hack == <<"h","a","c","k">>
L_xxx == <<"x","x","x">>
L_bug == <<"b","u","g">>
L_any == <<"a","n","y">>
L_as == <<"a","s">>
L_console_dot == <<"c","o","n","s","o","l","e",".">>
L_log == <<"l","o","g">>
L_debug == <<"d","e","b","u","g">>
L_info == <<"i","n","f","o">>
L_warn == <<"w","a","r","n">>
L_error == <<"e","r","r","o","r">>
L_var == <<"v","a","r">>
L_at_deprecated == <<"@","d","e","p","r","e","c","a","t","e","d">>
L_dot_deprecated == <<".","d","e","p","r","e","c","a","t","e","d">>
L_if == <<"i","f">>

CommentMarkers == {IgnoreCase(L_todo), IgnoreCase(L_fixme), IgnoreCase(L_hack), IgnoreCase(L_xxx), IgnoreCase(L_bug)}

DeprecationMarkers == {IgnoreCase(L_at_deprecated), IgnoreCase(L_dot_deprecated)}

ConsoleMethods == {L_log, L_debug, L_info, L_warn, L_error}

\* The {50,} of the complexity pattern.
ComplexityPatternMin == 50

\* /TODO|FIXME|HACK|XXX|BUG/i
TestComments(s) == \E m \in CommentMarkers : ContainsIgnoreCase(s, m)

\* /:\s*any\b|as\s+any\b/
TestTyping(s) ==
    \/ \E i \in 1..Len(s) :
          /\ s[i] = ":"
          /\ \E j \in (i + 1)..Len(s) :
                /\ SpacesBetween(s, i + 1, j)
                /\ LitAt(s, j, L_any)
                /\ WordEndsAt(s, j + 2)
    \/ \E i \in 1..Len(s) :
          /\ LitAt(s, i, L_as)
          /\ \E j \in (i + 3)..Len(s) :
                /\ SpacesBetween(s, i + 2, j)
                /\ LitAt(s, j, L_any)
                /\ WordEndsAt(s, j + 2)

\* /console\.(log|debug|info|warn|error)/
TestDebugging(s) ==
    \E i \in 1..Len(s) :
        /\ LitAt(s, i, L_console_dot)
        /\ \E m \in ConsoleMethods : LitAt(s, i + Len(L_console_dot), m)

\* /var\s+/
TestModernization(s) ==
    \E i \in 1..Len(s) :
        /\ LitAt(s, i, L_var)
        /\ i + 3 <= Len(s)
        /\ IsSpace(s[i + 3])

\* /@deprecated|\.deprecated/i
TestDeprecation(s) == \E m \in DeprecationMarkers : ContainsIgnoreCase(s, m)

\* /if\s*\([^)]{50,}\)/
TestComplexity(s) ==
    \E i \in 1..Len(s) :
        /\ LitAt(s, i, L_if)
        /\ \E j \in (i + 2)..Len(s) :
              /\ SpacesBetween(s, i + 2, j)
              /\ s[j] = "("
              /\ \E k \in (j + 1)..Len(s) :
                    /\ s[k] = ")"
                    /\ \A m \in (j + 1)..(k - 1) : s[m] # ")"
                    /\ k - j - 1 >= ComplexityPatternMin

(***************************************************************************)
(* Optional values, enumerations and the default configuration.            *)
(***************************************************************************)
None == <<>>

Some(x) == <<x>>

\* Object.values(DebtType)
DebtTypeValues == <<"comments", "typing", "debugging", "modernization", "deprecation", "complexity", "size">>

SeverityValues == {"low", "medium", "high"}

\* The keys of DEBT_PATTERNS.
PatternTypes == {"comments", "typing", "debugging", "modernization", "deprecation", "complexity"}

N_node_modules == <<"n","o","d","e","_","m","o","d","u","l","e","s">>
N_git == <<".","g","i","t">>
N_dist == <<"d","i","s","t">>
N_build == <<"b","u","i","l","d">>
N_coverage == <<"c","o","v","e","r","a","g","e">>
N_nyc_output == <<".","n","y","c","_","o","u","t","p","u","t">>
N_uu_coverage == <<"_","_","c","o","v","e","r","a","g","e","_","_">>
N_dot_coverage == <<".","c","o","v","e","r","a","g","e">>
N_c8_coverage == <<"c","8","-","c","o","v","e","r","a","g","e">>
N_next == <<".","n","e","x","t">>
N_nuxt == <<".","n","u","x","t">>
N_vscode == <<".","v","s","c","o","d","e">>
N_idea == <<".","i","d","e","a">>
X_js == <<".","j","s">>
X_ts == <<".","t","s">>
X_jsx == <<".","j","s","x">>
X_tsx == <<".","t","s","x">>

\* process.cwd(): paths are the names below it.
WorkingDirectory == <<>>

maxFileSize == 2000

maxLineCount == 100

complexConditionLength == 50

DEFAULT_CONFIGURATION ==
    [directory |-> WorkingDirectory,
     extensions |-> {X_js, X_ts, X_jsx, X_tsx},
     minSeverity |-> "low",
     skipDirectories |-> {N_node_modules, N_git, N_dist, N_build, N_coverage,
                          N_nyc_output, N_uu_coverage, N_dot_coverage, N_c8_coverage,
                          N_next, N_nuxt, N_vscode, N_idea},
     thresholds |-> [maxFileSize |-> maxFileSize,
                     maxLineCount |-> maxLineCount,
                     complexConditionLength |-> complexConditionLength]]

\* new TechDebtErrorImpl(message, category, recoverable, context, filePath)
TechDebtError(message, category, recoverable, filePath) ==
    [message |-> message, category |-> category, recoverable |-> recoverable,
     filePath |-> filePath]

Success(data) == [success |-> TRUE, data |-> Some(data), error |-> None]

Failure(error) == [success |-> FALSE, data |-> None, error |-> Some(error)]

(***************************************************************************)
(* The file system: a tree of nodes.  A directory lists its entries in     *)
(* the order readdir enumerates them; err is the error code a read of the  *)
(* node raises ("none" when it can be read).                               *)
(***************************************************************************)
Dir(name, err, entries) ==
    [name |-> name, kind |-> "dir", err |-> err, entries |-> entries,
     content |-> <<>>, size |-> 0]

File(name, err, content) ==
    [name |-> name, kind |-> "file", err |-> err, entries |-> <<>>,
     content |-> content, size |-> Len(content)]

SymLink(name) ==
    [name |-> name, kind |-> "symlink", err |-> "none", entries |-> <<>>,
     content |-> <<>>, size |-> 0]

Missing == [name |-> <<>>, kind |-> "missing", err |-> "ENOENT", entries |-> <<>>,
            content |-> <<>>, size |-> 0]

RECURSIVE NodeAt(_, _)
NodeAt(node, path) ==
    IF path = <<>> THEN node
    ELSE IF node.kind # "dir" THEN Missing
    ELSE IF \E i \in 1..Len(node.entries) : node.entries[i].name = Head(path)
         THEN LET i == CHOOSE j \in 1..Len(node.entries) : node.entries[j].name = Head(path)
              IN  NodeAt(node.entries[i], Tail(path))
         ELSE Missing

\* fs.existsSync(p)
existsSync(p) == NodeAt(fsys, p).kind # "missing"

\* fs.statSync(p).isDirectory()
statIsDirectory(p) == NodeAt(fsys, p).kind = "dir"

\* path.extname(name): from the last dot on, unless that dot starts the name.
extname(name) ==
    LET dots == {i \in 1..Len(name) : name[i] = "."}
    IN  IF dots = {} THEN <<>>
        ELSE LET d == CHOOSE i \in dots : \A j \in dots : j <= i
             IN  IF d = 1 \/ name = <<".", ".">> THEN <<>>
                 ELSE SubSeq(name, d, Len(name))

\* path.join(dir, name)
join(dir, name) == Append(dir, name)

\* path.relative(from, to), for a path `to` below `from`.
relative(from, to) == SubSeq(to, Len(from) + 1, Len(to))

RECURSIVE PathText(_)
\* The text of a path: its names separated by "/".
PathText(path) ==
    IF path = <<>> THEN <<>>
    ELSE IF Len(path) = 1 THEN path[1]
    ELSE path[1] \o <<"/">> \o PathText(Tail(path))

\* The category safeReadFile and safeReadDirectory give an error code.
ErrnoCategory(code) == IF code = "ENOENT" THEN "filesystem" ELSE "permission"

\* The error code fs.readFileSync raises on a node ("none": it returns the content).
ReadFileCode(node) ==
    IF node.kind = "dir" THEN "EISDIR" ELSE node.err

\* The error code fs.readdirSync raises on a node ("none": it returns the entries).
ReadDirCode(node) ==
    IF node.kind \in {"file", "symlink"} THEN "ENOTDIR" ELSE node.err

safeReadFile(filePath) ==
    LET node == NodeAt(fsys, filePath)
        code == ReadFileCode(node)
    IN  IF code = "none"
        THEN Success(node.content)
        ELSE Failure(TechDebtError(<<"Failed to read file: ", code>>,
                                   ErrnoCategory(code), FALSE, Some(filePath)))

\* A Dirent: the entry's name and kind.
Dirent(node) == [name |-> node.name, kind |-> node.kind]

\* safeReadDirectory marking its error non-recoverable, as safeReadFile does.
safeReadDirectory_Fatal(dir) ==
    LET node == NodeAt(fsys, dir)
        code == ReadDirCode(node)
    IN  IF code = "none"
        THEN Success([i \in 1..Len(node.entries) |-> Dirent(node.entries[i])])
        ELSE Failure(TechDebtError(<<"Failed to read directory: ", code>>,
                                   ErrnoCategory(code), FALSE, Some(dir)))

safeReadDirectory(dir) ==
    LET node == NodeAt(fsys, dir)
        code == ReadDirCode(node)
    IN  IF code = "none"
        THEN Success([i \in 1..Len(node.entries) |-> Dirent(node.entries[i])])
        ELSE Failure(TechDebtError(<<"Failed to read directory: ", code>>,
                                   ErrnoCategory(code), TRUE, Some(dir)))

\* The skip test without the hidden-directory rule.
shouldSkipDirectory_ListOnly(dirName, skipDirs) == dirName \in skipDirs

shouldSkipDirectory(dirName, skipDirs) ==
    dirName \in skipDirs \/ (Len(dirName) >= 1 /\ dirName[1] = ".")

(***************************************************************************)
(* analyzeFileForTechDebt                                                  *)
(***************************************************************************)
\* DEBT_PATTERNS[debtType].test(content), for a key of DEBT_PATTERNS.
PatternTest(debtType, content) ==
    CASE debtType = "comments" -> TestComments(content)
      [] debtType = "typing" -> TestTyping(content)
      [] debtType = "debugging" -> TestDebugging(content)
      [] debtType = "modernization" -> TestModernization(content)
      [] debtType = "deprecation" -> TestDeprecation(content)
      [] debtType = "complexity" -> TestComplexity(content)
      [] OTHER -> FALSE

\* The switch giving debugging findings the severity of comments findings.
SeverityOfType_DebuggingMedium(debtType) ==
    CASE debtType = "typing" -> "high"
      [] debtType = "deprecation" -> "high"
      [] OTHER -> "medium"

\* The severity the switch gives a debt type.
SeverityOfType(debtType) ==
    CASE debtType = "comments" -> "medium"
      [] debtType = "typing" -> "high"
      [] debtType = "debugging" -> "low"
      [] debtType = "modernization" -> "medium"
      [] debtType = "deprecation" -> "high"
      [] debtType = "complexity" -> "medium"
      [] OTHER -> "medium"

\* The description the switch gives a debt type.
DescriptionOfType(debtType) ==
    CASE debtType = "comments" -> <<"Contains TODO/FIXME/HACK/XXX comments">>
      [] debtType = "typing" -> <<"Uses 'any' type (TypeScript anti-pattern)">>
      [] debtType = "debugging" -> <<"Contains console.log statements">>
      [] debtType = "modernization" -> <<"Uses 'var' instead of 'let' or 'const'">>
      [] debtType = "deprecation" -> <<"Uses deprecated APIs or marked as deprecated">>
      [] debtType = "complexity" -> <<"Contains complex conditional statements">>
      [] OTHER -> <<>>

Finding(type, description, severity) ==
    [type |-> type, description |-> description, severity |-> severity]

\* content.split('\n').length
LineCount(content) == Cardinality({i \in 1..Len(content) : content[i] = "\n"}) + 1

\* The default taken from the keys of DEBT_PATTERNS, which has no size entry.
TypesToCheck_PatternsOnly(cfg) ==
    IF cfg.includeTypes = None THEN SubSeq(DebtTypeValues, 1, 6) ELSE cfg.includeTypes[1]

\* An empty list taken as no list.
TypesToCheck_EmptyAsOmitted(cfg) ==
    IF cfg.includeTypes = None \/ cfg.includeTypes = Some(<<>>)
    THEN DebtTypeValues ELSE cfg.includeTypes[1]

\* config.includeTypes || Object.values(DebtType)
TypesToCheck(cfg) ==
    IF cfg.includeTypes = None THEN DebtTypeValues ELSE cfg.includeTypes[1]

\* The loop over typesToCheck: one finding for each listed type whose pattern matches.
PatternFindings(typesToCheck, content) ==
    LET hits == SelectSeq(typesToCheck,
                          LAMBDA t : t \in PatternTypes /\ PatternTest(t, content))
    IN  [i \in 1..Len(hits) |->
           Finding(hits[i], DescriptionOfType(hits[i]), SeverityOfType(hits[i]))]

\* The file-size check asking for both thresholds to be exceeded.
SizeExceeded_Both(size, lineCount, thresholds) ==
    size > thresholds.maxFileSize /\ lineCount > thresholds.maxLineCount

\* The condition of the file-size check.
SizeExceeded(size, lineCount, thresholds) ==
    size > thresholds.maxFileSize \/ lineCount > thresholds.maxLineCount

SizeFindings(typesToCheck, size, lineCount, thresholds) ==
    IF (\E i \in 1..Len(typesToCheck) : typesToCheck[i] = "size")
       /\ SizeExceeded(size, lineCount, thresholds)
    THEN <<Finding("size",
                   <<"Large file (", ToString(lineCount),
                     " lines): consider splitting into smaller modules">>,
                   "medium")>>
    ELSE <<>>

\* analyzeFileForTechDebt handing on safeReadFile's own error instead of wrapping it.
analyzeFileForTechDebt_Propagate(filePath, cfg) ==
    LET fileResult == safeReadFile(filePath)
    IN  IF ~fileResult.success
        THEN Failure(fileResult.error[1])
        ELSE LET content == fileResult.data[1]
                 lineCount == LineCount(content)
                 size == NodeAt(fsys, filePath).size
                 typesToCheck == TypesToCheck(cfg)
             IN  Success([filePath |-> relative(cfg.directory, filePath),
                          findings |-> PatternFindings(typesToCheck, content)
                                       \o SizeFindings(typesToCheck, size, lineCount,
                                                       cfg.thresholds),
                          fileSize |-> size,
                          lineCount |-> lineCount,
                          analyzedAt |-> clock])

analyzeFileForTechDebt(filePath, cfg) ==
    LET fileResult == safeReadFile(filePath)
    IN  IF ~fileResult.success
        THEN Failure(TechDebtError(<<"Cannot analyze file: ">> \o fileResult.error[1].message,
                                   "analysis", TRUE, Some(filePath)))
        ELSE LET content == fileResult.data[1]
                 lineCount == LineCount(content)
                 size == NodeAt(fsys, filePath).size
                 typesToCheck == TypesToCheck(cfg)
             IN  Success([filePath |-> relative(cfg.directory, filePath),
                          findings |-> PatternFindings(typesToCheck, content)
                                       \o SizeFindings(typesToCheck, size, lineCount,
                                                       cfg.thresholds),
                          fileSize |-> size,
                          lineCount |-> lineCount,
                          analyzedAt |-> clock])

(***************************************************************************)
(* validateToolParameters                                                  *)
(***************************************************************************)
\* params.x || fallback
OrDefault(opt, fallback) == IF opt = None THEN fallback ELSE opt[1]

ResolvedConfiguration(p) ==
    [directory |-> OrDefault(p.directory, DEFAULT_CONFIGURATION.directory),
     extensions |-> DEFAULT_CONFIGURATION.extensions,
     includeTypes |-> p.includeTypes,
     minSeverity |-> OrDefault(p.severity, DEFAULT_CONFIGURATION.minSeverity),
     skipDirectories |-> DEFAULT_CONFIGURATION.skipDirectories,
     thresholds |-> DEFAULT_CONFIGURATION.thresholds]

\* validateToolParameters without the isDirectory check.
validateToolParameters_ExistsOnly(p) ==
    LET cfg == ResolvedConfiguration(p)
    IN  IF ~existsSync(cfg.directory)
        THEN Failure(TechDebtError(<<"Directory does not exist: ">> \o PathText(cfg.directory),
                                   "validation", FALSE, None))
        ELSE Success(cfg)

validateToolParameters(p) ==
    LET cfg == ResolvedConfiguration(p)
    IN  IF ~existsSync(cfg.directory)
        THEN Failure(TechDebtError(<<"Directory does not exist: ">> \o PathText(cfg.directory),
                                   "validation", FALSE, None))
        ELSE IF ~statIsDirectory(cfg.directory)
        THEN Failure(TechDebtError(<<"Path is not a directory: ">> \o PathText(cfg.directory),
                                   "validation", FALSE, None))
        ELSE Success(cfg)

(***************************************************************************)
(* The severity filter, the summary and formatTechDebtReport               *)
(***************************************************************************)
\* severityOrder of the handler's filter and of the formatter's sort.
severityOrder(severity) ==
    CASE severity = "high" -> 0
      [] severity = "medium" -> 1
      [] severity = "low" -> 2

\* The filter with the minimum itself left out.
KeepsFinding_Strict(finding, minSeverity) ==
    severityOrder(finding.severity) < severityOrder(minSeverity)

\* The filter keeping one severity only.
KeepsFinding_Exact(finding, minSeverity) ==
    severityOrder(finding.severity) = severityOrder(minSeverity)

\* The predicate of the handler's findings.filter(...).
KeepsFinding(finding, minSeverity) ==
    severityOrder(finding.severity) <= severityOrder(minSeverity)

FilterBySeverity(findings, minSeverity) ==
    SelectSeq(findings, LAMBDA f : KeepsFinding(f, minSeverity))

RECURSIVE Sum(_)
Sum(numbers) == IF numbers = <<>> THEN 0 ELSE Head(numbers) + Sum(Tail(numbers))

\* seq.reduce((sum, x) => sum + Count(x), 0)
SumOver(seq, Count(_)) == Sum([i \in 1..Len(seq) |-> Count(seq[i])])

CountWhere(findings, Test(_)) == Len(SelectSeq(findings, Test))

\* The summary counting only the files that are reported.
Summary_ReportedOnly(discovered, analyses, errs) ==
    [totalFiles |-> Len(analyses),
     filesWithFindings |-> Len(analyses),
     totalFindings |-> SumOver(analyses, LAMBDA fa : Len(fa.findings)),
     findingsBySeverity |->
        [s \in SeverityValues |->
           SumOver(analyses, LAMBDA fa : CountWhere(fa.findings, LAMBDA f : f.severity = s))],
     findingsByType |->
        [t \in {DebtTypeValues[i] : i \in 1..Len(DebtTypeValues)} |->
           SumOver(analyses, LAMBDA fa : CountWhere(fa.findings, LAMBDA f : f.type = t))],
     errorCount |-> Len(errs)]

\* The summary counting by type over the pattern types only, size left at zero.
Summary_PatternTypesOnly(discovered, analyses, errs) ==
    [totalFiles |-> Len(discovered),
     filesWithFindings |-> Len(analyses),
     totalFindings |-> SumOver(analyses, LAMBDA fa : Len(fa.findings)),
     findingsBySeverity |->
        [s \in SeverityValues |->
           SumOver(analyses, LAMBDA fa : CountWhere(fa.findings, LAMBDA f : f.severity = s))],
     findingsByType |->
        [t \in {DebtTypeValues[i] : i \in 1..Len(DebtTypeValues)} |->
           IF t = "size" THEN 0
           ELSE SumOver(analyses,
                        LAMBDA fa : CountWhere(fa.findings, LAMBDA f : f.type = t))],
     errorCount |-> Len(errs)]

Summary(discovered, analyses, errs) ==
    [totalFiles |-> Len(discovered),
     filesWithFindings |-> Len(analyses),
     totalFindings |-> SumOver(analyses, LAMBDA fa : Len(fa.findings)),
     findingsBySeverity |->
        [s \in SeverityValues |->
           SumOver(analyses, LAMBDA fa : CountWhere(fa.findings, LAMBDA f : f.severity = s))],
     findingsByType |->
        [t \in {DebtTypeValues[i] : i \in 1..Len(DebtTypeValues)} |->
           SumOver(analyses, LAMBDA fa : CountWhere(fa.findings, LAMBDA f : f.type = t))],
     errorCount |-> Len(errs)]

\* findings.sort by severityOrder: a stable sort, high first.
SortBySeverity(findings) ==
    SelectSeq(findings, LAMBDA f : f.severity = "high")
    \o SelectSeq(findings, LAMBDA f : f.severity = "medium")
    \o SelectSeq(findings, LAMBDA f : f.severity = "low")

\* The stand-ins for the emoji of the report's text.
ErrorIndicator == "(x)"

SeverityIcon(severity) ==
    IF severity = "high" THEN "(red)" ELSE IF severity = "medium" THEN "(yellow)" ELSE "(blue)"

FindingLine(finding) ==
    <<"  ", SeverityIcon(finding.severity), " [", finding.type, "] ">> \o finding.description

RECURSIVE JoinText(_, _)
\* texts.join(separator)
JoinText(texts, separator) ==
    IF texts = <<>> THEN <<>>
    ELSE IF Len(texts) = 1 THEN texts[1]
    ELSE texts[1] \o <<separator>> \o JoinText(Tail(texts), separator)

FileBlock(fileAnalysis) ==
    LET sortedFindings == SortBySeverity(fileAnalysis.findings)
    IN  <<"(folder) **">> \o PathText(fileAnalysis.filePath) \o <<"**", "\n">>
        \o JoinText([i \in 1..Len(sortedFindings) |-> FindingLine(sortedFindings[i])], "\n")

\* The formatter listing the file blocks from the last analysis to the first.
formatTechDebtReport_LastFirst(report) ==
    IF report.summary.totalFindings = 0
    THEN <<"(ok) No technical debt found matching the specified criteria.", "\n\n",
           "(stats) Scanned ", ToString(report.summary.totalFiles), " files.">>
    ELSE <<"(search) **Technical Debt Report**", "\n", "(stats) Found ",
           ToString(report.summary.totalFindings), " issues in ",
           ToString(report.summary.filesWithFindings), " files (scanned ",
           ToString(report.summary.totalFiles), " total)", "\n\n">>
         \o JoinText([i \in 1..Len(report.fileAnalyses) |->
                        FileBlock(report.fileAnalyses[Len(report.fileAnalyses) + 1 - i])],
                     "\n\n")

\* The formatter adding the time the report was generated.
formatTechDebtReport_Stamped(report) ==
    IF report.summary.totalFindings = 0
    THEN <<"(ok) No technical debt found matching the specified criteria.", "\n\n",
           "(stats) Scanned ", ToString(report.summary.totalFiles), " files.",
           "\n", ToString(report.generatedAt)>>
    ELSE <<"(search) **Technical Debt Report**", "\n", "(stats) Found ",
           ToString(report.summary.totalFindings), " issues in ",
           ToString(report.summary.filesWithFindings), " files (scanned ",
           ToString(report.summary.totalFiles), " total)", "\n",
           ToString(report.generatedAt), "\n\n">>
         \o JoinText([i \in 1..Len(report.fileAnalyses) |-> FileBlock(report.fileAnalyses[i])],
                     "\n\n")

\* The formatter without the case of no finding.
formatTechDebtReport_HeaderAlways(report) ==
    <<"(search) **Technical Debt Report**", "\n", "(stats) Found ",
      ToString(report.summary.totalFindings), " issues in ",
      ToString(report.summary.filesWithFindings), " files (scanned ",
      ToString(report.summary.totalFiles), " total)", "\n\n">>
    \o JoinText([i \in 1..Len(report.fileAnalyses) |-> FileBlock(report.fileAnalyses[i])],
                "\n\n")

\* The text formatTechDebtReport returns.
formatTechDebtReport(report) ==
    IF report.summary.totalFindings = 0
    THEN <<"(ok) No technical debt found matching the specified criteria.", "\n\n",
           "(stats) Scanned ", ToString(report.summary.totalFiles), " files.">>
    ELSE <<"(search) **Technical Debt Report**", "\n", "(stats) Found ",
           ToString(report.summary.totalFindings), " issues in ",
           ToString(report.summary.filesWithFindings), " files (scanned ",
           ToString(report.summary.totalFiles), " total)", "\n\n">>
         \o JoinText([i \in 1..Len(report.fileAnalyses) |-> FileBlock(report.fileAnalyses[i])],
                     "\n\n")

\* The formatter sorting a copy of each findings array.
AfterFormat_Untouched(report) == report.fileAnalyses

\* The file analyses after formatTechDebtReport: its sort reorders each findings array
\* in place, and the report holds those arrays.
AfterFormat(report) ==
    IF report.summary.totalFindings = 0
    THEN report.fileAnalyses
    ELSE [i \in 1..Len(report.fileAnalyses) |->
            [report.fileAnalyses[i] EXCEPT !.findings = SortBySeverity(@)]]

\* The handler's success: true response.
SuccessResponse(report) ==
    [success |-> TRUE,
     report |-> Some([report EXCEPT !.fileAnalyses = AfterFormat(report)]),
     error |-> None,
     formattedReport |-> formatTechDebtReport(report)]

\* A failure response that also returns what was gathered so far.
FailureResponse_WithReport(prefix, error) ==
    [success |-> FALSE,
     report |-> Some([fileAnalyses |-> fileAnalyses, errors |-> analysisErrors]),
     error |-> Some(error),
     formattedReport |-> <<ErrorIndicator, prefix>> \o error.message]

\* A success: false response of the handler: the error and the prefixed message.
FailureResponse(prefix, error) ==
    [success |-> FALSE,
     report |-> None,
     error |-> Some(error),
     formattedReport |-> <<ErrorIndicator, prefix>> \o error.message]

(***************************************************************************)
(* The inputs: file names, file contents, trees and parameters.            *)
(***************************************************************************)
N_a_ts == <<"a",".","t","s">>
N_b_js == <<"b",".","j","s">>
N_c_tsx == <<"c",".","t","s","x">>
N_d_jsx == <<"d",".","j","s","x">>
N_x_ts == <<"x",".","t","s">>
N_y_js == <<"y",".","j","s">>
N_z_js == <<"z",".","j","s">>
N_notes_md == <<"n","o","t","e","s",".","m","d">>
N_E_TS == <<"E",".","T","S">>
N_src == <<"s","r","c">>
N_deep == <<"d","e","e","p">>
N_lib == <<"l","i","b">>
N_link == <<"l","i","n","k">>
N_nope == <<"n","o","p","e">>
N_cache == <<".","c","a","c","h","e">>
N_Dist == <<"D","i","s","t">>

\* '// TODO: fix this'
C_todo == <<"/","/"," ","T","O","D","O",":"," ","f","i","x"," ","t","h","i","s">>
\* 'function f(data: any) {}'
C_any == <<"f","u","n","c","t","i","o","n"," ","f","(","d","a","t","a",":"," ","a","n","y",")"," ","{","}">>
\* 'var x = 1;'
C_var == <<"v","a","r"," ","x"," ","="," ","1",";">>
\* 'console.log("x")'
C_log == <<"c","o","n","s","o","l","e",".","l","o","g","(","\"","x","\"",")">>
\* 'console.debug(x);'
C_debug == <<"c","o","n","s","o","l","e",".","d","e","b","u","g","(","x",")",";">>
\* 'let y = 2;'
C_clean == <<"l","e","t"," ","y"," ","="," ","2",";">>
\* '// FIXME\nvar a = b as any;\nconsole.warn(a)'
C_mixed == <<"/","/"," ","F","I","X","M","E","\n","v","a","r"," ","a"," ","="," ","b"," ","a","s"," ","a","n","y",";","\n","c","o","n","s","o","l","e",".","w","a","r","n","(","a",")">>
\* '/** @Deprecated */\nold.deprecated'
C_deprecated == <<"/","*","*"," ","@","D","e","p","r","e","c","a","t","e","d"," ","*","/","\n","o","l","d",".","d","e","p","r","e","c","a","t","e","d">>
\* 'let mastodon = anyone;'
C_mastodon == <<"l","e","t"," ","m","a","s","t","o","d","o","n"," ","="," ","a","n","y","o","n","e",";">>
\* 'const hackathon = true;'
C_hackathon == <<"c","o","n","s","t"," ","h","a","c","k","a","t","h","o","n"," ","="," ","t","r","u","e",";">>
\* 'const v = w as  any;'
C_as_any == <<"c","o","n","s","t"," ","v"," ","="," ","w"," ","a","s"," "," ","a","n","y",";">>
\* 'let q :any'
C_colon_any == <<"l","e","t"," ","q"," ",":","a","n","y">>
\* 'let q: anywhere = has\tany'
C_anywhere == <<"l","e","t"," ","q",":"," ","a","n","y","w","h","e","r","e"," ","="," ","h","a","s","\t","a","n","y">>
\* 'let variable = 3'
C_variable == <<"l","e","t"," ","v","a","r","i","a","b","l","e"," ","="," ","3">>
\* 'var\tz'
C_var_tab == <<"v","a","r","\t","z">>
\* 'console.table(t)'
C_console_table == <<"c","o","n","s","o","l","e",".","t","a","b","l","e","(","t",")">>

Repeat(c, n) == [i \in 1..n |-> c]

C_empty == <<>>

\* if (<n characters>)
IfCondition(n) == <<"i","f"," ","(">> \o Repeat("a", n) \o <<")">>

\* n characters on the given number of lines
Sized(n, lines) == Repeat("x", n - (lines - 1)) \o Repeat("\n", lines - 1)

\* The contents a file of a single-file tree is given: the literal cases of each
\* pattern, conditions around the complexity pattern's length, and sizes around the
\* two thresholds.
Contents ==
    {C_empty, C_todo, C_any, C_var, C_log, C_debug, C_clean, C_mixed, C_deprecated,
     C_mastodon, C_hackathon, C_as_any, C_colon_any, C_anywhere, C_variable, C_var_tab,
     C_console_table,
     IfCondition(ComplexityPatternMin - 1), IfCondition(ComplexityPatternMin),
     IfCondition(ComplexityPatternMin + 1),
     Sized(maxFileSize, 1), Sized(maxFileSize + 1, 1),
     Sized(maxLineCount, maxLineCount), Sized(maxLineCount + 1, maxLineCount + 1),
     Sized(2500, 50), Sized(2500, 150), Sized(1500, 150),
     C_todo \o Sized(2500, 150)}

SingleFileTrees == {Dir(<<>>, "none", <<File(N_a_ts, "none", c)>>) : c \in Contents}

\* The names given to the probed directory: the skip list's, hidden ones, and names
\* that are not skipped.
ProbeNames ==
    {N_node_modules, N_git, N_dist, N_build, N_coverage, N_cache, N_uu_coverage, N_lib, N_Dist}

\* A root with a file before and a file after a directory of the probed name, which
\* holds a file and a nested directory.
ProbeTree(name, err) ==
    Dir(<<>>, "none",
        <<File(N_a_ts, "none", C_todo),
          Dir(name, err, <<File(N_x_ts, "none", C_any),
                           Dir(N_deep, "none", <<File(N_y_js, "none", C_var)>>)>>),
          File(N_z_js, "none", C_log)>>)

ProbeTrees == {ProbeTree(n, e) : n \in ProbeNames, e \in {"none", "EACCES"}}

ReadErrors == {"none", "EACCES", "ENOENT"}

\* A project whose directories and files may each fail to be read.
ProjectTree(rootErr, srcErr, deepErr, aErr, dErr) ==
    Dir(<<>>, rootErr,
        <<File(N_a_ts, aErr, C_mixed),
          Dir(N_src, srcErr,
              <<File(N_b_js, "none", C_var),
                Dir(N_deep, deepErr, <<File(N_c_tsx, "none", C_any)>>),
                File(N_E_TS, "none", C_todo)>>),
          SymLink(N_link),
          File(N_notes_md, "none", C_todo),
          File(N_d_jsx, dErr, C_debug)>>)

ProjectTrees ==
    {ProjectTree(r, s, d, a, f) :
        r \in {"none", "EACCES"}, s \in ReadErrors, d \in {"none", "EACCES"},
        a \in {"none", "EACCES"}, f \in {"none", "ENOENT"}}

Trees == SingleFileTrees \cup ProbeTrees \cup ProjectTrees

\* The trees successive invocations are run over.
RepeatTrees ==
    {Dir(<<>>, "none", <<File(N_a_ts, "none", C_mixed \o Repeat("\n", maxLineCount))>>),
     ProbeTree(N_node_modules, "none"),
     ProjectTree("none", "none", "EACCES", "none", "ENOENT")}

Reverse(seq) == [i \in 1..Len(seq) |-> seq[Len(seq) + 1 - i]]

DirectoryInputs == {None, Some(<<N_src>>), Some(<<N_a_ts>>), Some(<<N_nope>>)}

SeverityInputs == {None, Some("low"), Some("medium"), Some("high")}

IncludeTypesInputs ==
    {None, Some(<<>>), Some(DebtTypeValues), Some(Reverse(DebtTypeValues)),
     Some(<<"comments", "comments">>), Some(<<"size", "typing">>), Some(<<"debugging">>)}

Params ==
    [directory : DirectoryInputs, includeTypes : IncludeTypesInputs, severity : SeverityInputs]

\* The number of invocations handled one after the other over an unchanged tree.
MaxInvocations == 2

(***************************************************************************)
(* The handler of list-tech-debt, one step at a time.                      *)
(***************************************************************************)
Event(op, path) == [op |-> op, path |-> path]

\* A call of collectFiles(dir): data is dirResult.data once the directory is read,
\* next the position of its for loop.
Frame(dir) == [dir |-> dir, data |-> None, next |-> 1]

Top == stack[Len(stack)]

Pop(stk) == SubSeq(stk, 1, Len(stk) - 1)

ReplaceTop(stk, frame) == [stk EXCEPT ![Len(stk)] = frame]

InitOver(trees) ==
    /\ fsys \in trees
    /\ params \in Params
    /\ pc = "validate"
    /\ config = None
    /\ stack = <<>>
    /\ files = <<>>
    /\ fsErrors = <<>>
    /\ fileIndex = 1
    /\ analysisErrors = <<>>
    /\ fileAnalyses = <<>>
    /\ response = None
    /\ events = <<>>
    /\ clock = 1
    /\ previous = None

Init == InitOver(Trees)

\* A test that follows symbolic links, as fs.statSync does.
isDirectory_FollowingLinks(entry) == entry.kind \in {"dir", "symlink"}

\* entry.isDirectory() of a Dirent: false for a symbolic link.
isDirectory(entry) == entry.kind = "dir"

\* The extension compared without regard to case.
IsSourceFile_AnyCase(entry, cfg) ==
    /\ entry.kind = "file"
    /\ \E x \in cfg.extensions :
          /\ Len(x) = Len(extname(entry.name))
          /\ \A k \in 1..Len(x) : extname(entry.name)[k] \in CaseVariants(x[k])

\* entry.isFile() && config.extensions.includes(path.extname(entry.name))
IsSourceFile(entry, cfg) ==
    entry.kind = "file" /\ extname(entry.name) \in cfg.extensions

\* The analysis errors starting empty, the discovery errors left behind.
InitialAnalysisErrors_Empty(discoveryErrors) == <<>>

\* const analysisErrors = [...fsErrors]
InitialAnalysisErrors(discoveryErrors) == discoveryErrors

\* Every analyzed file taken into the report.
HasFindings_Always(fileAnalysis) == TRUE

\* fileAnalysis.findings.length > 0
HasFindings(fileAnalysis) == Len(fileAnalysis.findings) > 0

\* The analysis loop going through the discovered files from the last to the first.
FileToAnalyze_FromEnd == files[Len(files) + 1 - fileIndex]

\* The file the analysis loop is at.
FileToAnalyze == files[fileIndex]

\* Validation that also lists the directory it checks.
ValidationCalls_Listing(directory) ==
    <<Event("existsSync", directory)>>
    \o (IF existsSync(directory)
        THEN <<Event("statSync", directory), Event("readdir", directory)>> ELSE <<>>)

\* The calls of fs validateToolParameters makes.
ValidationCalls(directory) ==
    <<Event("existsSync", directory)>>
    \o (IF existsSync(directory) THEN <<Event("statSync", directory)>> ELSE <<>>)

\* validateToolParameters, then the call of getAllSourceFiles(config).
Validate ==
    /\ pc = "validate"
    /\ LET validationResult == validateToolParameters(params)
           directory == ResolvedConfiguration(params).directory
       IN  /\ events' = events \o ValidationCalls(directory)
           /\ IF ~validationResult.success
              THEN /\ response' = Some(FailureResponse("Validation Error: ",
                                                       validationResult.error[1]))
                   /\ pc' = "done"
                   /\ UNCHANGED <<config, stack>>
              ELSE /\ config' = validationResult.data
                   /\ stack' = <<Frame(validationResult.data[1].directory)>>
                   /\ pc' = "discover"
                   /\ UNCHANGED response
    /\ UNCHANGED <<fsys, params, files, fsErrors, fileIndex, analysisErrors,
                   fileAnalyses, clock, previous>>

\* collectFiles(currentDir): safeReadDirectory and the handling of its failure.
EnterDirectory ==
    /\ pc = "discover"
    /\ stack # <<>>
    /\ Top.data = None
    /\ LET dirResult == safeReadDirectory(Top.dir)
       IN  /\ events' = Append(events, Event("readdir", Top.dir))
           /\ IF dirResult.success
              THEN /\ stack' = ReplaceTop(stack, [Top EXCEPT !.data = dirResult.data])
                   /\ UNCHANGED <<fsErrors, response, pc>>
              ELSE IF dirResult.error[1].recoverable
              THEN /\ fsErrors' = Append(fsErrors, dirResult.error[1])
                   /\ stack' = Pop(stack)
                   /\ UNCHANGED <<response, pc>>
              ELSE \* thrown: every enclosing catch rethrows a non-recoverable error,
                   \* getAllSourceFiles returns it and the handler returns the failure
                   /\ stack' = <<>>
                   /\ response' = Some(FailureResponse("File System Error: ",
                                                       dirResult.error[1]))
                   /\ pc' = "done"
                   /\ UNCHANGED fsErrors
    /\ UNCHANGED <<fsys, params, config, files, fileIndex, analysisErrors,
                   fileAnalyses, clock, previous>>

\* One iteration of `for (const entry of dirResult.data)`.
VisitEntry ==
    /\ pc = "discover"
    /\ stack # <<>>
    /\ Top.data # None
    /\ Top.next <= Len(Top.data[1])
    /\ LET entry == Top.data[1][Top.next]
           fullPath == join(Top.dir, entry.name)
           advanced == ReplaceTop(stack, [Top EXCEPT !.next = @ + 1])
       IN  IF isDirectory(entry) /\ ~shouldSkipDirectory(entry.name, config[1].skipDirectories)
           THEN /\ stack' = Append(advanced, Frame(fullPath))
                /\ UNCHANGED files
           ELSE IF IsSourceFile(entry, config[1])
           THEN /\ files' = Append(files, fullPath)
                /\ stack' = advanced
           ELSE /\ stack' = advanced
                /\ UNCHANGED files
    /\ UNCHANGED <<fsys, params, pc, config, fsErrors, fileIndex, analysisErrors,
                   fileAnalyses, response, events, clock, previous>>

\* The end of collectFiles's loop: the call returns.
LeaveDirectory ==
    /\ pc = "discover"
    /\ stack # <<>>
    /\ Top.data # None
    /\ Top.next > Len(Top.data[1])
    /\ stack' = Pop(stack)
    /\ UNCHANGED <<fsys, params, pc, config, files, fsErrors, fileIndex, analysisErrors,
                   fileAnalyses, response, events, clock, previous>>

\* getAllSourceFiles returns { files, errors }; the handler sets up its loop.
FinishDiscovery ==
    /\ pc = "discover"
    /\ stack = <<>>
    /\ analysisErrors' = InitialAnalysisErrors(fsErrors)
    /\ fileAnalyses' = <<>>
    /\ fileIndex' = 1
    /\ pc' = "analyze"
    /\ UNCHANGED <<fsys, params, config, stack, files, fsErrors, response, events,
                   clock, previous>>

\* One iteration of `for (const file of files)`.
AnalyzeFile ==
    /\ pc = "analyze"
    /\ fileIndex <= Len(files)
    /\ LET file == FileToAnalyze
           analysisResult == analyzeFileForTechDebt(file, config[1])
       IN  /\ events' = events \o <<Event("readFile", file)>>
                        \o (IF analysisResult.success
                            THEN <<Event("statSync", file)>> ELSE <<>>)
           /\ IF ~analysisResult.success
              THEN IF analysisResult.error[1].recoverable
                   THEN /\ analysisErrors' = Append(analysisErrors, analysisResult.error[1])
                        /\ fileIndex' = fileIndex + 1
                        /\ UNCHANGED <<fileAnalyses, response, pc>>
                   ELSE /\ response' = Some(FailureResponse("Fatal Analysis Error: ",
                                                            analysisResult.error[1]))
                        /\ pc' = "done"
                        /\ UNCHANGED <<fileAnalyses, analysisErrors, fileIndex>>
              ELSE LET fileAnalysis ==
                         [analysisResult.data[1] EXCEPT
                            !.findings = FilterBySeverity(@, config[1].minSeverity)]
                   IN  /\ fileAnalyses' = IF HasFindings(fileAnalysis)
                                          THEN Append(fileAnalyses, fileAnalysis)
                                          ELSE fileAnalyses
                       /\ fileIndex' = fileIndex + 1
                       /\ UNCHANGED <<analysisErrors, response, pc>>
    /\ UNCHANGED <<fsys, params, config, stack, files, fsErrors, clock, previous>>

\* After the loop: the summary, the report, its formatting, and the response.
Respond ==
    /\ pc = "analyze"
    /\ fileIndex > Len(files)
    /\ LET report == [summary |-> Summary(files, fileAnalyses, analysisErrors),
                      fileAnalyses |-> fileAnalyses,
                      errors |-> analysisErrors,
                      configuration |-> config[1],
                      generatedAt |-> clock]
       IN  response' = Some(SuccessResponse(report))
    /\ pc' = "done"
    /\ UNCHANGED <<fsys, params, config, stack, files, fsErrors, fileIndex,
                   analysisErrors, fileAnalyses, events, clock, previous>>

\* The next invocation of the tool, on the same directory of the unchanged tree, at a
\* later time.
Reinvoke ==
    /\ pc = "done"
    /\ clock < MaxInvocations
    /\ previous' = Some([params |-> params, response |-> response[1]])
    /\ params' \in {p \in Params : p.directory = params.directory}
    /\ clock' = clock + 1
    /\ pc' = "validate"
    /\ config' = None
    /\ stack' = <<>>
    /\ files' = <<>>
    /\ fsErrors' = <<>>
    /\ fileIndex' = 1
    /\ analysisErrors' = <<>>
    /\ fileAnalyses' = <<>>
    /\ response' = None
    /\ events' = <<>>
    /\ UNCHANGED fsys

Next ==
    \/ Validate
    \/ EnterDirectory
    \/ VisitEntry
    \/ LeaveDirectory
    \/ FinishDiscovery
    \/ AnalyzeFile
    \/ Respond

\* One invocation of the tool.
Spec == Init /\ [][Next]_vars

NextRepeat == Next \/ Reinvoke

InitRepeat == InitOver(RepeatTrees)

\* Successive invocations of the tool over an unchanged tree.
SpecRepeat == InitRepeat /\ [][NextRepeat]_vars

\* Parameters as validateToolParameters can be handed them when it is called on its
\* own: those of the schema, a severity outside the enumeration, and lists naming a
\* type outside it.
RawParams ==
    [directory : DirectoryInputs,
     includeTypes : IncludeTypesInputs
                    \cup {Some(<<"naming">>), Some(<<"comments", "naming", "size">>)},
     severity : SeverityInputs \cup {Some("critical")}]

InitResolver ==
    /\ fsys \in RepeatTrees
    /\ params \in RawParams
    /\ pc = "resolve"
    /\ config = None
    /\ stack = <<>>
    /\ files = <<>>
    /\ fsErrors = <<>>
    /\ fileIndex = 1
    /\ analysisErrors = <<>>
    /\ fileAnalyses = <<>>
    /\ response = None
    /\ events = <<>>
    /\ clock = 1
    /\ previous = None

\* A call of validateToolParameters(params): config holds the configuration it
\* returns, response the failure it returns.
Resolve ==
    /\ pc = "resolve"
    /\ LET validationResult == validateToolParameters(params)
       IN  /\ events' = events \o ValidationCalls(ResolvedConfiguration(params).directory)
           /\ IF validationResult.success
              THEN /\ config' = validationResult.data
                   /\ UNCHANGED response
              ELSE /\ response' = Some([success |-> FALSE,
                                        report |-> None,
                                        error |-> validationResult.error,
                                        formattedReport |-> <<>>])
                   /\ UNCHANGED config
    /\ pc' = "resolved"
    /\ UNCHANGED <<fsys, params, stack, files, fsErrors, fileIndex, analysisErrors,
                   fileAnalyses, clock, previous>>

NextResolver == Resolve

SpecResolver == InitResolver /\ [][NextResolver]_vars

\* The catch clause's error marked recoverable.
UnexpectedError_Recoverable(message) ==
    TechDebtError(<<"Unexpected error: ">> \o message, "configuration", TRUE, None)

\* The error the handler's catch clause builds.
UnexpectedError(message) ==
    TechDebtError(<<"Unexpected error: ">> \o message, "configuration", FALSE, None)

\* An exception escapes a stage of the pipeline and the handler's catch clause
\* returns it as a failure response.
Unexpected ==
    /\ pc \in {"validate", "discover", "analyze"}
    /\ events' = Append(events, Event("throw", <<>>))
    /\ response' = Some(FailureResponse("", UnexpectedError(<<"Unknown error occurred">>)))
    /\ pc' = "done"
    /\ UNCHANGED <<fsys, params, config, stack, files, fsErrors, fileIndex,
                   analysisErrors, fileAnalyses, clock, previous>>

NextGuarded == Next \/ Unexpected

\* One invocation of the handler in which any stage may throw.
SpecGuarded == InitRepeat /\ [][NextGuarded]_vars

\* One invocation of the handler, which runs each of its steps as soon as it can: the
\* handler's body is synchronous code.
SpecFair == InitRepeat /\ [][Next]_vars /\ WF_vars(Next)

(***************************************************************************)
(* What the properties below speak of.                                     *)
(***************************************************************************)
Done == pc = "done"

Succeeded == Done /\ response[1].success

Failed == Done /\ ~response[1].success

Report == response[1].report[1]

\* high > medium > low
SeverityRank(severity) ==
    IF severity = "high" THEN 3 ELSE IF severity = "medium" THEN 2 ELSE 1

AtLeastAsSevere(severity, minimum) == SeverityRank(severity) >= SeverityRank(minimum)

\* The minimum severity an invocation asks for (low when it names none).
RequestedSeverity(p) == IF p.severity = None THEN "low" ELSE p.severity[1]

Occurrences(seq, x) == Cardinality({i \in 1..Len(seq) : seq[i] = x})

Elements(seq) == {seq[i] : i \in 1..Len(seq)}

\* The findings a list of file analyses holds for the file of a relative path.
FindingsFor(analyses, filePath) ==
    IF \E i \in 1..Len(analyses) : analyses[i].filePath = filePath
    THEN analyses[CHOOSE i \in 1..Len(analyses) : analyses[i].filePath = filePath].findings
    ELSE <<>>

(***************************************************************************)
(* Properties                                                              *)
(***************************************************************************)
\* The files analyzed so far, each with what analyzeFileForTechDebt returns for it.
AnalyzedFiles == SubSeq(files, 1, fileIndex - 1)

\* C1: in every successful scan, for every minimum severity, the findings the report
\* keeps for a file are exactly the findings analyzeFileForTechDebt produces for it
\* that are at least as severe as the minimum: none below it is kept, none at or
\* above it is dropped (each kept as often as it was produced).
C1_SeverityFilterExact ==
    Succeeded =>
        \A i \in 1..Len(files) :
            LET produced == analyzeFileForTechDebt(files[i], config[1])
                kept == FindingsFor(Report.fileAnalyses, relative(config[1].directory, files[i]))
            IN  /\ produced.success =>
                    \A f \in Elements(produced.data[1].findings) \cup Elements(kept) :
                        Occurrences(kept, f) =
                            IF AtLeastAsSevere(f.severity, RequestedSeverity(params))
                            THEN Occurrences(produced.data[1].findings, f)
                            ELSE 0
                /\ ~produced.success => kept = <<>>

\* A successful scan with a minimum above low in which a file has findings on both
\* sides of the minimum.
C1_Witness ==
    /\ Succeeded
    /\ RequestedSeverity(params) # "low"
    /\ \E i \in 1..Len(files) :
          LET produced == analyzeFileForTechDebt(files[i], config[1])
          IN  /\ produced.success
              /\ \E f \in Elements(produced.data[1].findings) :
                    ~AtLeastAsSevere(f.severity, RequestedSeverity(params))
              /\ \E f \in Elements(produced.data[1].findings) :
                    AtLeastAsSevere(f.severity, RequestedSeverity(params))

\* The (file, finding type) pairs of a successful response's report.
ReportPairs(resp) ==
    UNION {{<<fa.filePath, f.type>> : f \in Elements(fa.findings)} :
           fa \in Elements(resp.report[1].fileAnalyses)}

\* Two successful invocations over the same directory with the same includeTypes.
SameScan(p, q) == p.directory = q.directory /\ p.includeTypes = q.includeTypes

\* The (file, finding type) pairs reported at the higher of two minimum severities
\* are among those reported at the lower.
Monotone(lowParams, lowResp, highParams, highResp) ==
    (/\ SameScan(lowParams, highParams)
     /\ lowResp.success /\ highResp.success
     /\ SeverityRank(RequestedSeverity(lowParams)) <= SeverityRank(RequestedSeverity(highParams)))
    => ReportPairs(highResp) \subseteq ReportPairs(lowResp)

\* C2: filter monotonicity: over the same tree and the same includeTypes, for minimum
\* severities s1 <= s2, the (file, finding type) pairs reported with s2 are a subset
\* of those reported with s1.
C2_FilterMonotone ==
    (Done /\ previous # None) =>
        /\ Monotone(previous[1].params, previous[1].response, params, response[1])
        /\ Monotone(params, response[1], previous[1].params, previous[1].response)

\* Two successful invocations with the same includeTypes, the second at a strictly
\* higher minimum, where the second reports some but not all pairs of the first.
C2_Witness ==
    /\ Done /\ previous # None
    /\ SameScan(previous[1].params, params)
    /\ previous[1].response.success /\ response[1].success
    /\ SeverityRank(RequestedSeverity(previous[1].params)) < SeverityRank(RequestedSeverity(params))
    /\ ReportPairs(response[1]) # {}
    /\ ReportPairs(response[1]) # ReportPairs(previous[1].response)

\* A file analysis without its timestamp.
Untimed(fa) ==
    [filePath |-> fa.filePath, findings |-> fa.findings, fileSize |-> fa.fileSize,
     lineCount |-> fa.lineCount]

\* What a successful response reports, timestamps and the echoed configuration aside.
Reported(resp) ==
    [summary |-> resp.report[1].summary,
     fileAnalyses |-> [i \in 1..Len(resp.report[1].fileAnalyses) |->
                          Untimed(resp.report[1].fileAnalyses[i])],
     errors |-> resp.report[1].errors,
     formattedReport |-> resp.formattedReport]

\* One invocation omits includeTypes, the other lists the seven types; the rest agrees.
OmittedAndAllSeven(p, q) ==
    /\ p.directory = q.directory
    /\ p.severity = q.severity
    /\ p.includeTypes = None
    /\ q.includeTypes = Some(DebtTypeValues)

\* C3: type-filter correctness: every finding of a report has a type among the
\* includeTypes passed, and a scan with includeTypes omitted reports the same as a
\* scan of the same tree with includeTypes listing the seven types comments, typing,
\* debugging, modernization, deprecation, complexity, size.
C3_TypeFilter ==
    /\ (Succeeded /\ params.includeTypes # None) =>
          \A pair \in ReportPairs(response[1]) : pair[2] \in Elements(params.includeTypes[1])
    /\ (Done /\ previous # None
        /\ (\/ OmittedAndAllSeven(previous[1].params, params)
            \/ OmittedAndAllSeven(params, previous[1].params))) =>
          /\ response[1].success = previous[1].response.success
          /\ response[1].success => Reported(response[1]) = Reported(previous[1].response)

\* A scan with includeTypes omitted followed by one listing the seven types, both
\* successful, reporting a size finding and a pattern finding.
C3_Witness ==
    /\ Succeeded /\ previous # None
    /\ OmittedAndAllSeven(previous[1].params, params)
    /\ previous[1].response.success
    /\ \E pair \in ReportPairs(response[1]) : pair[2] = "size"
    /\ \E pair \in ReportPairs(response[1]) : pair[2] # "size"

\* The directory names the skip list must keep out: the five named ones and every
\* name starting with a dot.
MustBeSkipped(name) ==
    \/ name \in {N_node_modules, N_git, N_dist, N_build, N_coverage}
    \/ (name # <<>> /\ name[1] = ".")

\* The directories a path passes through below the scanned root.
DirectoriesOf(filePath) ==
    LET below == relative(config[1].directory, filePath)
    IN  {below[i] : i \in 1..(Len(below) - 1)}

\* C4: skip-list enforcement: no discovered file's path passes, below the scanned
\* root, through a directory named node_modules, .git, dist, build or coverage or
\* starting with a dot, and no such directory is ever read.
C4_SkipListEnforced ==
    config # None =>
        /\ \A i \in 1..Len(files) : \A name \in DirectoriesOf(files[i]) : ~MustBeSkipped(name)
        /\ \A i \in 1..Len(events) :
              events[i].op = "readdir" =>
                 \A name \in Elements(relative(config[1].directory, events[i].path)) :
                    ~MustBeSkipped(name)

\* A finished scan of a root that holds a directory to be skipped, with a matching
\* file in it, and that discovered the files beside it.
C4_Witness ==
    /\ Succeeded
    /\ Len(files) >= 2
    /\ \E i \in 1..Len(fsys.entries) :
          /\ fsys.entries[i].kind = "dir"
          /\ MustBeSkipped(fsys.entries[i].name)
          /\ \E j \in 1..Len(fsys.entries[i].entries) :
                /\ fsys.entries[i].entries[j].kind = "file"
                /\ extname(fsys.entries[i].entries[j].name) \in config[1].extensions

\* The directory an invocation scans.
Root == OrDefault(params.directory, WorkingDirectory)

RootNode == NodeAt(fsys, Root)

\* C5: when the root exists and is a directory but cannot be read, the tool returns
\* a failure response carrying a non-recoverable filesystem error, and no report.
C5_UnreadableRootIsFatal ==
    (Done /\ RootNode.kind = "dir" /\ RootNode.err # "none") =>
        /\ ~response[1].success
        /\ response[1].report = None
        /\ response[1].error # None
        /\ response[1].error[1].category = "filesystem"
        /\ ~response[1].error[1].recoverable

Matches(name) == extname(name) \in DEFAULT_CONFIGURATION.extensions

Skipped(name) == shouldSkipDirectory(name, DEFAULT_CONFIGURATION.skipDirectories)

RECURSIVE ReadableFilesUnder(_, _)
\* The matching files in the readable, non-skipped directories from a directory down.
ReadableFilesUnder(node, path) ==
    IF node.err # "none" THEN {}
    ELSE UNION {LET e == node.entries[i]
                IN  IF e.kind = "file" /\ Matches(e.name) THEN {join(path, e.name)}
                    ELSE IF e.kind = "dir" /\ ~Skipped(e.name)
                    THEN ReadableFilesUnder(e, join(path, e.name))
                    ELSE {} :
                i \in 1..Len(node.entries)}

RECURSIVE UnreadableUnder(_, _)
\* The non-skipped directories below a readable directory that cannot be read, found
\* going down through readable, non-skipped directories.
UnreadableUnder(node, path) ==
    UNION {LET e == node.entries[i]
           IN  IF e.kind = "dir" /\ ~Skipped(e.name)
               THEN IF e.err # "none" THEN {join(path, e.name)}
                    ELSE UnreadableUnder(e, join(path, e.name))
               ELSE {} :
           i \in 1..Len(node.entries)}

WasRead(file) == \E k \in 1..Len(events) : events[k] = Event("readFile", file)

\* The findings of a readable file that are at or above the minimum asked for.
ReportableFindings(file) ==
    LET produced == analyzeFileForTechDebt(file, config[1])
    IN  IF produced.success
        THEN SelectSeq(produced.data[1].findings,
                       LAMBDA f : AtLeastAsSevere(f.severity, RequestedSeverity(params)))
        ELSE <<>>

\* C6: error accumulation: when a non-skipped subdirectory under a readable root
\* cannot be read, the scan still succeeds; every matching file of the readable,
\* non-skipped directories is discovered and analyzed, and is in the report if it
\* has findings at or above the minimum; and summary.errorCount is at least 1.
C6_UnreadableSubdirectoryAbsorbed ==
    (Done /\ RootNode.kind = "dir" /\ RootNode.err = "none"
     /\ UnreadableUnder(RootNode, Root) # {}) =>
        /\ response[1].success
        /\ Report.summary.errorCount >= 1
        /\ \A file \in ReadableFilesUnder(RootNode, Root) :
              /\ file \in Elements(files)
              /\ WasRead(file)
              /\ ReportableFindings(file) # <<>> =>
                    \E i \in 1..Len(Report.fileAnalyses) :
                        Report.fileAnalyses[i].filePath = relative(Root, file)

\* A successful scan whose root lists an unreadable, non-skipped directory and, after
\* it, a matching file that is in the report.
C6_Witness ==
    /\ Succeeded
    /\ RootNode.err = "none"
    /\ \E i \in 1..Len(RootNode.entries) :
          /\ RootNode.entries[i].kind = "dir"
          /\ ~Skipped(RootNode.entries[i].name)
          /\ RootNode.entries[i].err # "none"
          /\ \E j \in (i + 1)..Len(RootNode.entries) :
                /\ RootNode.entries[j].kind = "file"
                /\ \E k \in 1..Len(Report.fileAnalyses) :
                      Report.fileAnalyses[k].filePath = <<RootNode.entries[j].name>>

\* The files analyzeFileForTechDebt has been called for.
Attempted == {events[k].path : k \in {j \in 1..Len(events) : events[j].op = "readFile"}}

\* The types an invocation selects (all seven when it names none).
SelectedTypes == IF params.includeTypes = None THEN Elements(DebtTypeValues)
                 ELSE Elements(params.includeTypes[1])

HasSizeFinding(result) == \E f \in Elements(result.data[1].findings) : f.type = "size"

\* C7 as amended: analyzeFileForTechDebt produces a size finding for a file iff size
\* is among the selected types and the file's byte size exceeds
\* thresholds.maxFileSize or its line count exceeds thresholds.maxLineCount: a file
\* that exceeds only one of the two thresholds gets a size finding.
C7_SizeEitherThreshold ==
    \A file \in Attempted :
        LET result == analyzeFileForTechDebt(file, config[1])
            node == NodeAt(fsys, file)
        IN  result.success =>
               (HasSizeFinding(result) <=>
                    /\ "size" \in SelectedTypes
                    /\ \/ node.size > config[1].thresholds.maxFileSize
                       \/ LineCount(node.content) > config[1].thresholds.maxLineCount)

\* C7 as claimed: a size finding iff size is among the selected types and the byte
\* size exceeds thresholds.maxFileSize and the line count exceeds
\* thresholds.maxLineCount.
C7_SizeBothThresholds ==
    \A file \in Attempted :
        LET result == analyzeFileForTechDebt(file, config[1])
            node == NodeAt(fsys, file)
        IN  result.success =>
               (HasSizeFinding(result) <=>
                    /\ "size" \in SelectedTypes
                    /\ node.size > config[1].thresholds.maxFileSize
                    /\ LineCount(node.content) > config[1].thresholds.maxLineCount)

\* An analyzed file of 2500 characters on 50 lines, with size among the selected
\* types, that is reported with a size finding.
C7_Witness ==
    /\ Succeeded
    /\ \E file \in Attempted :
          /\ NodeAt(fsys, file).size = 2500
          /\ LineCount(NodeAt(fsys, file).content) = 50
          /\ \E f \in Elements(FindingsFor(Report.fileAnalyses, relative(Root, file))) :
                f.type = "size"

\* C8: a root path that does not exist, or that is not a directory, makes
\* validateToolParameters fail with a validation-category, non-recoverable error,
\* and the tool returns a failure response with that error and no report.
C8_BadRootFailsValidation ==
    (Done /\ RootNode.kind # "dir") =>
        LET validationResult == validateToolParameters(params)
        IN  /\ ~validationResult.success
            /\ validationResult.error[1].category = "validation"
            /\ ~validationResult.error[1].recoverable
            /\ ~response[1].success
            /\ response[1].error = validationResult.error
            /\ response[1].report = None

\* A failure response for a root path that names a file.
C8_Witness ==
    /\ Failed
    /\ RootNode.kind = "file"
    /\ response[1].error[1].category = "validation"

C10_ReadFailureAbsorbed ==
    \A file \in Attempted :
        ReadFileCode(NodeAt(fsys, file)) # "none" =>
            LET result == analyzeFileForTechDebt(file, config[1])
            IN  /\ ~result.success
                /\ result.error[1].category = "analysis"
                /\ result.error[1].recoverable
                /\ result.error[1].filePath = Some(file)
                /\ result.error[1] \in Elements(analysisErrors)
                /\ \A i \in 1..Len(fileAnalyses) :
                      fileAnalyses[i].filePath # relative(Root, file)
                /\ Done =>
                      /\ response[1].success
                      /\ result.error[1] \in Elements(Report.errors)
                      /\ \A other \in Elements(files) : other \in Attempted
                      /\ \A i \in 1..Len(Report.fileAnalyses) :
                            Report.fileAnalyses[i].filePath # relative(Root, file)

\* A successful scan in which a file could not be read and a file discovered after it
\* is in the report.
C10_Witness ==
    /\ Succeeded
    /\ \E i \in 1..Len(files) :
          /\ ReadFileCode(NodeAt(fsys, files[i])) # "none"
          /\ \E j \in (i + 1)..Len(files) :
                \E k \in 1..Len(Report.fileAnalyses) :
                    Report.fileAnalyses[k].filePath = relative(Root, files[j])

\* How often a list of findings holds a finding of a type.
FindingsOfType(findings, type) == Cardinality({i \in 1..Len(findings) : findings[i].type = type})

\* C11: the FileAnalysis analyzeFileForTechDebt returns for a file holds at most one
\* finding of each debt type, for every includeTypes list the tool's schema accepts.
C11_OneFindingPerType ==
    \A file \in Attempted :
        LET result == analyzeFileForTechDebt(file, config[1])
        IN  result.success =>
               \A type \in Elements(DebtTypeValues) :
                   FindingsOfType(result.data[1].findings, type) <= 1

\* The matching files below the scanned root that discovery can reach.
Discoverable == IF RootNode.kind = "dir" THEN ReadableFilesUnder(RootNode, Root) ELSE {}

InReport(file) ==
    \E i \in 1..Len(Report.fileAnalyses) :
        Report.fileAnalyses[i].filePath = relative(Root, file)

Readable(file) == ReadFileCode(NodeAt(fsys, file)) = "none"

\* The findings of a report, each named by its file's position and its own.
ReportedFindings ==
    UNION {{<<i, j>> : j \in 1..Len(Report.fileAnalyses[i].findings)} :
           i \in 1..Len(Report.fileAnalyses)}

\* C12: summary counts: in every successful report totalFiles is the number of files
\* discovered (files whose analysis failed and files whose findings were all
\* filtered out included), filesWithFindings is the length of report.fileAnalyses,
\* and totalFindings is the number of findings, after the filter, over
\* report.fileAnalyses.
C12_SummaryCounts ==
    Succeeded =>
        /\ Report.summary.totalFiles = Len(files)
        /\ Report.summary.totalFiles = Cardinality(Discoverable)
        /\ Report.summary.filesWithFindings = Len(Report.fileAnalyses)
        /\ Report.summary.totalFindings = Cardinality(ReportedFindings)

\* A successful report over a file that could not be read, a file whose findings were
\* all filtered out, and a file that is reported.
C12_Witness ==
    /\ Succeeded
    /\ \E file \in Elements(files) : ~Readable(file)
    /\ \E file \in Elements(files) :
          /\ Readable(file)
          /\ analyzeFileForTechDebt(file, config[1]).data[1].findings # <<>>
          /\ ~InReport(file)
    /\ Report.summary.filesWithFindings >= 1
    /\ Report.summary.totalFiles > Report.summary.filesWithFindings + 1

\* The directories discovery reads, or tries to, that cannot be read.
UnreadableDirectories ==
    IF RootNode.kind # "dir" THEN {}
    ELSE IF RootNode.err # "none" THEN {Root}
    ELSE UnreadableUnder(RootNode, Root)

UnreadableFiles == {file \in Discoverable : ~Readable(file)}

C14_IncludedIffFindings ==
    Succeeded =>
        /\ \A file \in Elements(files) :
              Readable(file) => (InReport(file) <=> ReportableFindings(file) # <<>>)
        /\ \A i \in 1..Len(Report.fileAnalyses) : Report.fileAnalyses[i].findings # <<>>

\* A successful report that holds one analyzed file and leaves out another, whose
\* findings were all below the minimum.
C14_Witness ==
    /\ Succeeded
    /\ \E file \in Elements(files) :
          /\ Readable(file)
          /\ analyzeFileForTechDebt(file, config[1]).data[1].findings # <<>>
          /\ ReportableFindings(file) = <<>>
          /\ ~InReport(file)
    /\ \E file \in Elements(files) : Readable(file) /\ InReport(file)

RECURSIVE Concat(_)
Concat(seqs) == IF seqs = <<>> THEN <<>> ELSE Head(seqs) \o Concat(Tail(seqs))

\* Findings listed high, then medium, then low, and within a severity in the order
\* comments, typing, debugging, modernization, deprecation, complexity, size.
SeverityThenDetectorOrder(findings) ==
    Concat([s \in 1..3 |->
              Concat([t \in 1..Len(DebtTypeValues) |->
                        SelectSeq(findings,
                                  LAMBDA f : /\ f.severity = <<"high", "medium", "low">>[s]
                                             /\ f.type = DebtTypeValues[t])])])

\* C15: within each file block of the formatted report the findings are listed by
\* severity descending, and findings of equal severity in the fixed detector order
\* comments, typing, debugging, modernization, deprecation, complexity, size, for
\* every includeTypes value, in whatever order the caller listed the types.
C15_FixedDetectorOrder ==
    (Succeeded /\ Report.summary.totalFindings > 0) =>
        /\ \A i \in 1..Len(Report.fileAnalyses) :
              Report.fileAnalyses[i].findings
                 = SeverityThenDetectorOrder(Report.fileAnalyses[i].findings)
        /\ response[1].formattedReport
              = formatTechDebtReport(
                   [Report EXCEPT !.fileAnalyses =
                      [i \in 1..Len(Report.fileAnalyses) |->
                         [Report.fileAnalyses[i] EXCEPT
                            !.findings = SeverityThenDetectorOrder(@)]]])

RECURSIVE DepthFirst(_, _)
\* The matching files from a directory down, depth first, each directory's entries
\* in their enumeration order; unreadable and skipped directories give none.
DepthFirst(node, path) ==
    IF node.err # "none" THEN <<>>
    ELSE Concat([i \in 1..Len(node.entries) |->
                   LET e == node.entries[i]
                   IN  IF e.kind = "file" /\ Matches(e.name) THEN <<join(path, e.name)>>
                       ELSE IF e.kind = "dir" /\ ~Skipped(e.name)
                       THEN DepthFirst(e, join(path, e.name))
                       ELSE <<>>])

\* The discovered files that are included in the report, in discovery order.
IncludedInOrder ==
    SelectSeq(files, LAMBDA file : Readable(file) /\ ReportableFindings(file) # <<>>)

\* Where the file blocks of a formatted report start.
BlockStarts(text) == {k \in 1..Len(text) : text[k] = "(folder) **"}

NthBlockStart(text, n) ==
    CHOOSE k \in BlockStarts(text) : Cardinality({j \in BlockStarts(text) : j < k}) = n - 1

\* The n-th file block of a formatted report is headed by a path.
BlockIsHeadedBy(text, n, filePath) ==
    LET k == NthBlockStart(text, n)
        name == PathText(filePath)
    IN  /\ k + Len(name) + 1 <= Len(text)
        /\ SubSeq(text, k + 1, k + Len(name)) = name
        /\ text[k + Len(name) + 1] = "**"

\* C16: the file blocks of the formatted report are in the order the files were
\* discovered (depth first, each directory in enumeration order), restricted to the
\* included files; the formatter does not re-sort them.
C16_BlocksInDiscoveryOrder ==
    Succeeded =>
        /\ files = DepthFirst(RootNode, Root)
        /\ Len(Report.fileAnalyses) = Len(IncludedInOrder)
        /\ \A n \in 1..Len(IncludedInOrder) :
              Report.fileAnalyses[n].filePath = relative(Root, IncludedInOrder[n])
        /\ Cardinality(BlockStarts(response[1].formattedReport)) = Len(IncludedInOrder)
        /\ \A n \in 1..Len(IncludedInOrder) :
              BlockIsHeadedBy(response[1].formattedReport, n,
                              relative(Root, IncludedInOrder[n]))

\* A report of at least two file blocks for files of different directories, with a
\* discovered file between them that is left out.
C16_Witness ==
    /\ Succeeded
    /\ \E i, j, k \in 1..Len(files) :
          /\ i < j /\ j < k
          /\ InReport(files[i]) /\ ~InReport(files[j]) /\ InReport(files[k])
          /\ Len(files[i]) # Len(files[k])
    /\ Cardinality(BlockStarts(response[1].formattedReport)) >= 2

\* C17: idempotence: two invocations of the tool with the same parameters over the
\* same unchanged tree give identical formattedReport texts; the text depends on no
\* timestamp or other value of the invocation.
C17_SameTextTwice ==
    (Done /\ previous # None /\ previous[1].params = params) =>
        response[1].formattedReport = previous[1].response.formattedReport

\* Two successful invocations with the same parameters, at different times, whose
\* reports hold findings and an error.
C17_Witness ==
    /\ Done /\ previous # None
    /\ previous[1].params = params
    /\ previous[1].response.success /\ response[1].success
    /\ Report.summary.totalFindings > 0
    /\ Report.summary.errorCount > 0
    /\ Report.generatedAt # previous[1].response.report[1].generatedAt
    /\ Report.fileAnalyses[1].analyzedAt # previous[1].response.report[1].fileAnalyses[1].analyzedAt
    /\ response[1].formattedReport = previous[1].response.formattedReport

\* Where the calls of an operation are in the record of calls.
CallsOf(op) == {k \in 1..Len(events) : events[k].op = op}

\* C18: fail fast: an execution that ends with a validation error reads no directory
\* and analyzes no file, and in every execution validation has completed, with
\* success, before the first directory read.
C18_ValidationFirst ==
    /\ (Failed /\ response[1].error[1].category = "validation") =>
          /\ CallsOf("readdir") = {}
          /\ CallsOf("readFile") = {}
          /\ files = <<>>
          /\ fileAnalyses = <<>>
    /\ CallsOf("readdir") # {} =>
          /\ validateToolParameters(params).success
          /\ config = validateToolParameters(params).data
          /\ events[1] = Event("existsSync", Root)
          /\ events[2] = Event("statSync", Root)
          /\ \A k \in CallsOf("readdir") : k > 2

\* An execution that ends with a validation error for a root path that exists, over a
\* tree whose root directory has entries.
C18_Witness ==
    /\ Failed
    /\ response[1].error[1].category = "validation"
    /\ events = <<Event("existsSync", Root), Event("statSync", Root)>>
    /\ fsys.entries # <<>>

\* The files analyzeFileForTechDebt has been called for, in call order.
AnalysisOrder ==
    LET reads == SelectSeq(events, LAMBDA e : e.op = "readFile")
    IN  [n \in 1..Len(reads) |-> reads[n].path]

\* C19: phase ordering: every directory read of discovery happens before the first
\* file analysis, and the files are analyzed one at a time in exactly the order of
\* the discovered file list.
C19_PhaseOrder ==
    /\ \A i \in CallsOf("readFile") : \A j \in CallsOf("readdir") : j < i
    /\ CallsOf("readFile") # {} => files = DepthFirst(RootNode, Root)
    /\ Len(AnalysisOrder) <= Len(files)
    /\ AnalysisOrder = SubSeq(files, 1, Len(AnalysisOrder))
    /\ Succeeded => AnalysisOrder = files

\* A completed scan of several directories and at least three files.
C19_Witness ==
    /\ Succeeded
    /\ Cardinality(CallsOf("readdir")) >= 2
    /\ Len(files) >= 3
    /\ AnalysisOrder = files

\* A severity, or a debt type, outside the enumerations is asked for.
AsksUnknownValue(p) ==
    \/ p.severity # None /\ p.severity[1] \notin SeverityValues
    \/ p.includeTypes # None
       /\ \E type \in Elements(p.includeTypes[1]) : type \notin Elements(DebtTypeValues)

IsPrefix(prefix, text) ==
    Len(prefix) <= Len(text) /\ SubSeq(text, 1, Len(prefix)) = prefix

\* C21: formatter case split: when summary.totalFindings is zero the formatted report
\* is the message that no debt was found with the number of files scanned, and has
\* no file block; otherwise it is a header giving totalFindings, filesWithFindings
\* and totalFiles, followed by exactly one block per entry of report.fileAnalyses.
C21_FormatterCaseSplit ==
    Succeeded =>
        LET text == response[1].formattedReport
            summary == Report.summary
        IN  IF summary.totalFindings = 0
            THEN /\ text = <<"(ok) No technical debt found matching the specified criteria.",
                             "\n\n", "(stats) Scanned ", ToString(summary.totalFiles),
                             " files.">>
                 /\ BlockStarts(text) = {}
            ELSE /\ IsPrefix(<<"(search) **Technical Debt Report**", "\n", "(stats) Found ",
                               ToString(summary.totalFindings), " issues in ",
                               ToString(summary.filesWithFindings), " files (scanned ",
                               ToString(summary.totalFiles), " total)", "\n\n",
                               "(folder) **">>, text)
                 /\ Cardinality(BlockStarts(text)) = Len(Report.fileAnalyses)
                 /\ \A n \in 1..Len(Report.fileAnalyses) :
                       BlockIsHeadedBy(text, n, Report.fileAnalyses[n].filePath)

\* A successful report with no finding over scanned files, one of which had findings
\* that were all filtered out.
C21_Witness ==
    /\ Succeeded
    /\ Report.summary.totalFindings = 0
    /\ Report.summary.totalFiles >= 2
    /\ \E file \in Elements(files) :
          Readable(file) /\ analyzeFileForTechDebt(file, config[1]).data[1].findings # <<>>

\* A name ends with one of the extensions .js, .ts, .jsx, .tsx, written exactly so,
\* after at least one other character.
EndsWithSourceExtension(name) ==
    \E x \in {X_js, X_ts, X_jsx, X_tsx} :
        /\ Len(name) > Len(x)
        /\ SubSeq(name, Len(name) - Len(x) + 1, Len(name)) = x

RECURSIVE SourceFilesUnder(_, _)
\* The regular files with a source extension reachable from a readable directory
\* through directories that are readable and not skipped.
SourceFilesUnder(node, path) ==
    UNION {LET e == node.entries[i]
           IN  IF e.kind = "file"
               THEN IF EndsWithSourceExtension(e.name) THEN {join(path, e.name)} ELSE {}
               ELSE IF e.kind = "dir" /\ e.err = "none" /\ ~Skipped(e.name)
               THEN SourceFilesUnder(e, join(path, e.name))
               ELSE {} :
           i \in 1..Len(node.entries)}

DiscoveryIsOver == pc = "analyze" \/ (pc = "done" /\ config # None)

\* C22: discovery exactness: for a tree with a readable root, the file list of
\* getAllSourceFiles holds exactly the regular files reachable from the root through
\* readable, non-skipped directories whose extension, case-sensitive and with its
\* dot, is in config.extensions; each once, and no other path.
C22_DiscoveryExact ==
    (DiscoveryIsOver /\ RootNode.err = "none") =>
        /\ Elements(files) = SourceFilesUnder(RootNode, Root)
        /\ Len(files) = Cardinality(Elements(files))
        /\ \A file \in Elements(files) : NodeAt(fsys, file).kind = "file"

\* A finished discovery over a tree that holds, besides the files found, a file with
\* an upper-case extension, a file of another extension, a symbolic link, and a file
\* in an unreadable directory.
C22_Witness ==
    /\ DiscoveryIsOver
    /\ RootNode.err = "none"
    /\ Len(files) >= 2
    /\ \E i \in 1..Len(RootNode.entries) : RootNode.entries[i].kind = "symlink"
    /\ \E i \in 1..Len(RootNode.entries) : RootNode.entries[i].name = N_notes_md
    /\ UnreadableDirectories # {}
    /\ \E i \in 1..Len(RootNode.entries) :
          /\ RootNode.entries[i].kind = "dir"
          /\ \E j \in 1..Len(RootNode.entries[i].entries) :
                RootNode.entries[i].entries[j].name = N_E_TS

\* typing and deprecation are high; debugging is low; the other four are medium.
SeverityByType(type) ==
    IF type \in {"typing", "deprecation"} THEN "high"
    ELSE IF type = "debugging" THEN "low"
    ELSE "medium"

ReportedTypes ==
    UNION {{f.type : f \in Elements(Report.fileAnalyses[i].findings)} :
           i \in 1..Len(Report.fileAnalyses)}

\* C23: a finding's severity is determined by its type alone: typing and deprecation
\* findings are high; comments, modernization, complexity and size findings are
\* medium; debugging findings are low. So a scan with severity = high reports only
\* typing and deprecation findings, and a scan with severity = medium reports no
\* debugging finding.
C23_SeverityByType ==
    /\ \A file \in Attempted :
          LET result == analyzeFileForTechDebt(file, config[1])
          IN  result.success =>
                 \A f \in Elements(result.data[1].findings) :
                     f.severity = SeverityByType(f.type)
    /\ Succeeded =>
          /\ \A i \in 1..Len(Report.fileAnalyses) :
                \A f \in Elements(Report.fileAnalyses[i].findings) :
                    f.severity = SeverityByType(f.type)
          /\ params.severity = Some("high") =>
                ReportedTypes \subseteq {"typing", "deprecation"}
          /\ params.severity = Some("medium") => "debugging" \notin ReportedTypes

\* A scan with severity = medium of a file with a console.log call and other debt,
\* reported without its debugging finding.
C23_Witness ==
    /\ Succeeded
    /\ params.severity = Some("medium")
    /\ ReportedTypes # {}
    /\ \E file \in Attempted :
          /\ Readable(file)
          /\ InReport(file)
          /\ \E f \in Elements(analyzeFileForTechDebt(file, config[1]).data[1].findings) :
                f.type = "debugging"

\* One of TODO, FIXME, HACK, XXX, BUG, in either case, stands in s as a whole word:
\* with no word character right before it or right after it.
HasMarkerAsWholeWord(s) ==
    \E m \in {L_todo, L_fixme, L_hack, L_xxx, L_bug} :
        \E i \in 1..Len(s) :
            /\ ClassAt(s, i, IgnoreCase(m))
            /\ (i = 1 \/ ~IsWordChar(s[i - 1]))
            /\ WordEndsAt(s, i + Len(m) - 1)

HasFindingOfType(result, type) ==
    \E f \in Elements(result.data[1].findings) : f.type = type

\* C24: the comments detector fires iff the content contains TODO, FIXME, HACK, XXX
\* or BUG, case-insensitively, as a whole word; content where these letters occur
\* only inside a longer word, as in console.debug, gives no comments finding.
C24_CommentsWholeWord ==
    \A file \in Attempted :
        LET result == analyzeFileForTechDebt(file, config[1])
        IN  (result.success /\ "comments" \in SelectedTypes) =>
               (HasFindingOfType(result, "comments")
                   <=> HasMarkerAsWholeWord(NodeAt(fsys, file).content))

\* The lengths of the parenthesized contents of the if (...) conditions of s.
IfConditionLengths(s) ==
    {len \in 0..Len(s) :
        \E i \in 1..Len(s) : \E j \in (i + 2)..Len(s) :
            /\ LitAt(s, i, L_if)
            /\ SpacesBetween(s, i + 2, j)
            /\ s[j] = "("
            /\ j + len + 1 <= Len(s)
            /\ s[j + len + 1] = ")"
            /\ \A m \in (j + 1)..(j + len) : s[m] # ")"}

\* Condition-length thresholds a configuration could hold, the default among them.
ConditionLengthThresholds == {complexConditionLength - 10, complexConditionLength,
                              complexConditionLength + 1}

\* C25: the complexity detector fires iff the file contains an if (...) condition
\* whose parenthesized content is strictly longer than
\* config.thresholds.complexConditionLength: a condition of exactly the threshold
\* length (50 by default) gives no finding, and another configured threshold moves
\* the length at which the finding appears.
C25_ComplexityThreshold ==
    \A file \in Attempted :
        \A threshold \in ConditionLengthThresholds :
            LET cfg == [config[1] EXCEPT !.thresholds.complexConditionLength = threshold]
                result == analyzeFileForTechDebt(file, cfg)
            IN  (result.success /\ "complexity" \in SelectedTypes) =>
                   (HasFindingOfType(result, "complexity")
                       <=> \E len \in IfConditionLengths(NodeAt(fsys, file).content) :
                              len > threshold)

ErrorCategories == {"filesystem", "permission", "validation", "analysis", "configuration"}

\* C26: errors are partitioned by recoverability: every error of a successful
\* response's report.errors is recoverable; the error of a failure response is not
\* recoverable and has one of the five categories; and an exception that escapes a
\* stage of the pipeline is returned as a configuration-category failure response,
\* so that the handler always ends with a response.
C26_ErrorsPartitioned ==
    /\ Succeeded => \A i \in 1..Len(Report.errors) : Report.errors[i].recoverable
    /\ Failed =>
          /\ response[1].error # None
          /\ ~response[1].error[1].recoverable
          /\ response[1].error[1].category \in ErrorCategories
    /\ CallsOf("throw") # {} =>
          /\ Failed
          /\ response[1].error[1].category = "configuration"
          /\ response[1].report = None
    /\ Done => response # None

\* A failure response for an exception thrown during the analysis loop, after an
\* error was recorded and a file analysis gathered.
C26_Witness ==
    /\ Failed
    /\ CallsOf("throw") # {}
    /\ response[1].error[1].category = "configuration"
    /\ analysisErrors # <<>>
    /\ fileAnalyses # <<>>

\* C27: summary internal consistency: in every successful report totalFindings is
\* findingsBySeverity.high + .medium + .low and is the sum of findingsByType over the
\* seven debt types; filesWithFindings <= totalFindings; and filesWithFindings plus
\* the number of analysis-phase errors is at most totalFiles.
C27_SummaryConsistent ==
    Succeeded =>
        LET summary == Report.summary
        IN  /\ summary.totalFindings
                  = summary.findingsBySeverity["high"] + summary.findingsBySeverity["medium"]
                    + summary.findingsBySeverity["low"]
            /\ summary.totalFindings
                  = Sum([i \in 1..Len(DebtTypeValues) |->
                           summary.findingsByType[DebtTypeValues[i]]])
            /\ summary.filesWithFindings <= summary.totalFindings
            /\ summary.filesWithFindings + (Len(Report.errors) - Len(fsErrors))
                  <= summary.totalFiles

\* A successful report that counts a size finding next to a finding of another type.
C27_Witness ==
    /\ Succeeded
    /\ Report.summary.findingsByType["size"] >= 1
    /\ Report.summary.totalFindings >= 2
    /\ Report.summary.findingsBySeverity["medium"] >= 2

\* No directory is read twice, no file analyzed twice, and only directories are read.
NoRepeatedWork ==
    /\ \A i, j \in CallsOf("readdir") : events[i].path = events[j].path => i = j
    /\ \A i, j \in CallsOf("readFile") : events[i].path = events[j].path => i = j
    /\ \A i \in CallsOf("readdir") : NodeAt(fsys, events[i].path).kind = "dir"
    /\ \A i \in CallsOf("readFile") : NodeAt(fsys, events[i].path).kind = "file"

\* C28: termination: for every finite tree and every parameter set, one invocation of
\* the handler eventually returns, with exactly one response; during it each
\* directory is read at most once and each discovered file analyzed at most once,
\* and entries that are not regular directories, such as symbolic links, are never
\* descended into.
C28_Terminates ==
    /\ <>Done
    /\ [](Done => response # None)
    /\ [][response # None => response' = response]_vars
    /\ []NoRepeatedWork

\* A returned scan of a tree with nested directories and a symbolic link.
C28_Witness ==
    /\ Succeeded
    /\ Cardinality(CallsOf("readdir")) >= 3
    /\ Cardinality(CallsOf("readFile")) >= 3
    /\ \E i \in 1..Len(RootNode.entries) : RootNode.entries[i].kind = "symlink"

\* The positions of a text between two bounds that open a finding's type.
TypeMarks(text, from, to) == {k \in from..to : text[k] = " ["}

\* The finding lines of the n-th file block of a formatted report, each as the icon
\* and the type it shows, in the order of the lines.
BlockLines(text, n) ==
    LET from == NthBlockStart(text, n)
        to == IF n < Cardinality(BlockStarts(text))
              THEN NthBlockStart(text, n + 1) ELSE Len(text)
        marks == TypeMarks(text, from, to)
        Nth(m) == CHOOSE k \in marks : Cardinality({j \in marks : j < k}) = m - 1
    IN  [m \in 1..Cardinality(marks) |-> <<text[Nth(m) - 1], text[Nth(m) + 1]>>]

IconOf(severity) ==
    IF severity = "high" THEN "(red)" ELSE IF severity = "medium" THEN "(yellow)" ELSE "(blue)"

IsPermutation(s, t) ==
    /\ Len(s) = Len(t)
    /\ \A x \in Elements(s) \cup Elements(t) : Occurrences(s, x) = Occurrences(t, x)

\* C29: the formatter reorders the structured report it is given: after a successful
\* invocation with at least one finding, each report.fileAnalyses[i].findings of the
\* returned report is in severity-descending order, the order of the lines of that
\* file's block in formattedReport, whatever order the analyzer produced them in;
\* nothing else is changed: same files, same findings per file as a multiset, same
\* summary.
C29_FormatterSortsInPlace ==
    (Succeeded /\ Report.summary.totalFindings > 0) =>
        /\ Len(Report.fileAnalyses) = Len(fileAnalyses)
        /\ \A i \in 1..Len(Report.fileAnalyses) :
              LET returned == Report.fileAnalyses[i]
                  gathered == fileAnalyses[i]
              IN  /\ \A j \in 1..(Len(returned.findings) - 1) :
                        SeverityRank(returned.findings[j].severity)
                           >= SeverityRank(returned.findings[j + 1].severity)
                  /\ BlockLines(response[1].formattedReport, i)
                        = [j \in 1..Len(returned.findings) |->
                             <<IconOf(returned.findings[j].severity),
                               returned.findings[j].type>>]
                  /\ IsPermutation(returned.findings, gathered.findings)
                  /\ [returned EXCEPT !.findings = <<>>] = [gathered EXCEPT !.findings = <<>>]
        /\ Report.summary = Summary(files, fileAnalyses, analysisErrors)
        /\ Report.errors = analysisErrors

\* A successful report of a file whose findings the analyzer produced in another
\* order than by severity descending.
C29_Witness ==
    /\ Succeeded
    /\ Report.summary.totalFindings > 0
    /\ \E i \in 1..Len(fileAnalyses) :
          /\ Len(fileAnalyses[i].findings) >= 3
          /\ fileAnalyses[i].findings # Report.fileAnalyses[i].findings

\* C30: an includeTypes list that is present but empty is not treated as omitted: a
\* scan with includeTypes = [] evaluates no detector, so it succeeds with
\* totalFindings = 0 and an empty fileAnalyses list, while totalFiles still counts
\* every discovered file.
C30_EmptyListSelectsNothing ==
    (params.includeTypes = Some(<<>>) /\ config # None) =>
        /\ \A file \in Attempted :
              LET result == analyzeFileForTechDebt(file, config[1])
              IN  result.success => result.data[1].findings = <<>>
        /\ fileAnalyses = <<>>
        /\ Done =>
              /\ response[1].success
              /\ Report.summary.totalFindings = 0
              /\ Report.fileAnalyses = <<>>
              /\ Report.summary.totalFiles = Cardinality(Discoverable)
              /\ Report.summary.totalFiles = Len(files)

\* A successful scan with includeTypes = [] of several files, one of them holding a
\* TODO, that reports nothing.
C30_Witness ==
    /\ Succeeded
    /\ params.includeTypes = Some(<<>>)
    /\ Report.summary.totalFiles >= 2
    /\ Report.summary.totalFindings = 0
    /\ \E file \in Attempted :
          Readable(file) /\ HasMarkerAsWholeWord(NodeAt(fsys, file).content)

====
